---- MODULE Spec2Model ----
(***************************************************************************)
(* A model of xlsxTransformation.py: the mapping table built from          *)
(* config.xlsx, its reversal, the application of a rule to a column, and   *)
(* the transformation of a source workbook into a target workbook.         *)
(*                                                                         *)
(* A Python str is a sequence of tokens: " " is a whitespace character,    *)
(* "-" the separator character, every other token a run of characters      *)
(* that holds neither.  A dict is the sequence of its entries              *)
(* [key, value] in insertion order, with no key twice.                     *)
(***************************************************************************)
EXTENDS Naturals, Sequences, FiniteSets

VARIABLES pc, config, nested_mapping, built_mapping, reverse_input, reversals,
          source_file, source_data, report, new_data,
          elements, rule, element_mapping, mapped_elements

vars == <<pc, config, nested_mapping, built_mapping, reverse_input, reversals,
          source_file, source_data, report, new_data,
          elements, rule, element_mapping, mapped_elements>>

(***************************************************************************)
(* Bounds of the model.                                                    *)
(***************************************************************************)
\* Sheets and rows of config.xlsx, together.
MaxConfigSize == 5
\* Calls of reverse_nested_mapping in a row.
MaxReversals == 2
\* Values of a column and pairs of an element mapping given to map_elements_by_rule.
MaxElements == 3
MaxPairs == 2
\* Sheet-pair keys and column-pair keys of a mapping table, together.
MaxTableKeys == 5
\* Sheets and columns of target.xlsx, together.
MaxSourceKeys == 5

(***************************************************************************)
(* Strings.                                                                *)
(***************************************************************************)
W(t) == <<t>>

SP == " "

DASH == "-"

NaN == <<"NaN">>

NULL == <<"null">>

COPY == <<"Copy">>

TRANSLATE == <<"Translate">>

notna(cell) == cell # NaN

RECURSIVE lstrip(_)
lstrip(s) == IF s # <<>> /\ Head(s) = SP THEN lstrip(Tail(s)) ELSE s

RECURSIVE rstrip(_)
rstrip(s) ==
    IF s # <<>> /\ s[Len(s)] = SP THEN rstrip(SubSeq(s, 1, Len(s) - 1)) ELSE s

strip(s) == rstrip(lstrip(s))

\* s.split('-'): the pieces between the separators, Len = separators + 1.
RECURSIVE split(_)
split(s) ==
    IF s = <<>> THEN << <<>> >>
    ELSE LET rest == split(Tail(s))
         IN  IF Head(s) = DASH THEN << <<>> >> \o rest
             ELSE << <<Head(s)>> \o Head(rest) >> \o Tail(rest)

(***************************************************************************)
(* Dicts.                                                                  *)
(***************************************************************************)
Keys(d) == { d[i].key : i \in 1..Len(d) }

Has(d, k) == \E i \in 1..Len(d) : d[i].key = k

Get(d, k) == d[CHOOSE i \in 1..Len(d) : d[i].key = k].value

\* d[k] = v: a present key keeps its place, a new one goes last.
Put(d, k, v) ==
    IF Has(d, k)
    THEN [ i \in 1..Len(d) |-> IF d[i].key = k THEN [key |-> k, value |-> v] ELSE d[i] ]
    ELSE Append(d, [key |-> k, value |-> v])

NoDuplicateKeys(d) == \A i, j \in 1..Len(d) : d[i].key = d[j].key => i = j

\* Every dict of the table has each key once.
WellFormed(mapping) ==
    /\ NoDuplicateKeys(mapping)
    /\ \A i \in 1..Len(mapping) : NoDuplicateKeys(mapping[i].value)

(***************************************************************************)
(* Outcomes: a returned value, or the exception that ended the call.       *)
(***************************************************************************)
Return(v) == [ok |-> TRUE, value |-> v]

Raise(e) == [ok |-> FALSE, value |-> e]

(***************************************************************************)
(* generate_nested_mapping                                                 *)
(***************************************************************************)
\* left, right = s.split('-'): unpacking needs exactly two pieces.
SplitPair(s) ==
    LET parts == split(s)
    IN  IF Len(parts) = 2
        THEN Return(<<strip(parts[1]), strip(parts[2])>>)
        ELSE Raise("ValueError")

\* The loop over row[3:] of a Translate row.
RECURSIVE ParseElementPairs(_, _)
ParseElementPairs(cells, elements_mapping) ==
    IF cells = <<>> THEN Return(elements_mapping)
    ELSE IF notna(Head(cells))
         THEN LET p == SplitPair(Head(cells))
              IN  IF p.ok
                  THEN ParseElementPairs(Tail(cells), Append(elements_mapping, p.value))
                  ELSE p
         ELSE ParseElementPairs(Tail(cells), elements_mapping)

\* AddRow with the rule of a repeated key overwritten by the later row.
AddRowOverwritingRule(titles, row) ==
    LET trans_type == strip(row.TransType)
        k == <<strip(row.LeftTitle), strip(row.RightTitle)>>
        old == IF Has(titles, k) THEN Get(titles, k).elements ELSE <<>>
        titles1 == Put(titles, k, [rule |-> trans_type, elements |-> old])
    IN  IF trans_type = TRANSLATE
        THEN LET e == ParseElementPairs(row.cells, old)
             IN  IF e.ok
                 THEN Return(Put(titles1, k, [rule |-> trans_type, elements |-> e.value]))
                 ELSE e
        ELSE Return(titles1)

\* One iteration of the loop over df.iterrows().
AddRow(titles, row) ==
    LET left_title == strip(row.LeftTitle)
        right_title == strip(row.RightTitle)
        trans_type == strip(row.TransType)
        k == <<left_title, right_title>>
        titles1 == IF Has(titles, k) THEN titles
                   ELSE Put(titles, k, [rule |-> trans_type, elements |-> <<>>])
        info == Get(titles1, k)
    IN  IF trans_type = TRANSLATE
        THEN LET e == ParseElementPairs(row.cells, info.elements)
             IN  IF e.ok
                 THEN Return(Put(titles1, k, [info EXCEPT !.elements = e.value]))
                 ELSE e
        ELSE Return(titles1)

RECURSIVE AddRows(_, _)
AddRows(titles, rows) ==
    IF rows = <<>> THEN Return(titles)
    ELSE LET r == AddRow(titles, Head(rows))
         IN  IF r.ok THEN AddRows(r.value, Tail(rows)) ELSE r

\* One iteration of the loop over config_df.items().
AddSheet(mapping, sheet) ==
    LET k == SplitPair(sheet.sheet_name)
    IN  IF ~k.ok THEN k
        ELSE LET mapping1 == IF Has(mapping, k.value) THEN mapping
                             ELSE Put(mapping, k.value, <<>>)
                 t == AddRows(Get(mapping1, k.value), sheet.rows)
             IN  IF t.ok THEN Return(Put(mapping1, k.value, t.value)) ELSE t

RECURSIVE AddSheets(_, _)
AddSheets(mapping, sheets) ==
    IF sheets = <<>> THEN Return(mapping)
    ELSE LET r == AddSheet(mapping, Head(sheets))
         IN  IF r.ok THEN AddSheets(r.value, Tail(sheets)) ELSE r

generate_nested_mapping(config_df) == AddSheets(<<>>, config_df)

(***************************************************************************)
(* reverse_nested_mapping                                                  *)
(***************************************************************************)
SwapPair(p) == <<p[2], p[1]>>

\* ReverseElements with (target, target) for (target, source).
ReverseElementsTargetTwice(es) == [ i \in 1..Len(es) |-> <<es[i][2], es[i][2]>> ]

ReverseElements(es) == [ i \in 1..Len(es) |-> SwapPair(es[i]) ]

\* ReverseInfo with the element pairs carried over as they are.
ReverseInfoKeepingPairs(mapping_info) ==
    [rule |-> mapping_info.rule, elements |-> mapping_info.elements]

ReverseInfo(mapping_info) ==
    [rule |-> mapping_info.rule, elements |-> ReverseElements(mapping_info.elements)]

RECURSIVE ReverseTitles(_, _)
ReverseTitles(titles_mapping, reversed_titles) ==
    IF titles_mapping = <<>> THEN reversed_titles
    ELSE ReverseTitles(Tail(titles_mapping),
                       Put(reversed_titles, SwapPair(Head(titles_mapping).key),
                           ReverseInfo(Head(titles_mapping).value)))

RECURSIVE ReverseSheets(_, _)
ReverseSheets(mapping, reversed_mapping) ==
    IF mapping = <<>> THEN reversed_mapping
    ELSE LET k == SwapPair(Head(mapping).key)
         IN  ReverseSheets(Tail(mapping),
                           Put(reversed_mapping, k,
                               ReverseTitles(Head(mapping).value, <<>>)))

reverse_nested_mapping(mapping) == ReverseSheets(mapping, <<>>)

(***************************************************************************)
(* The configuration workbooks the model reads.                            *)
(***************************************************************************)
SheetNames ==
    { <<"A", DASH, "X">>,
      <<SP, "A", SP, DASH, SP, "X", SP>>,
      <<"A", DASH, "Y">>,
      <<"A", "X">> }

Row(l, r, t, c) == [LeftTitle |-> l, RightTitle |-> r, TransType |-> t, cells |-> c]

ConfigRows ==
    { Row(W("a"), W("x"), COPY, << <<"M", DASH, "Male">> >>),
      Row(<<SP, "a">>, <<"x", SP>>, <<SP, "Translate", SP>>,
          << <<"M", SP, DASH, SP, "Male">>, NaN, <<"F", DASH, "Female">> >>),
      Row(W("a"), W("x"), TRANSLATE, << <<"M", DASH, "Man">> >>),
      Row(W("b"), W("x"), W("Move"), <<>>),
      Row(W("b"), W("y"), TRANSLATE, << <<"U">> >>) }

RECURSIVE Sum(_, _)
Sum(f, n) == IF n = 0 THEN 0 ELSE f[n] + Sum(f, n - 1)

DistinctSeqs(S, n) == { s \in [1..n -> S] : \A i, j \in 1..n : s[i] = s[j] => i = j }

\* The workbook whose i-th sheet is named names[i] and holds the next sizes[i]
\* rows of the list rows.
Workbook(names, sizes, rows) ==
    [ i \in 1..Len(names) |->
        [sheet_name |-> names[i],
         rows |-> SubSeq(rows, Sum(sizes, i - 1) + 1, Sum(sizes, i))] ]

\* config is a workbook of at most MaxConfigSize sheets and rows.
IsConfig(c) ==
    \E n \in 0..MaxConfigSize : \E k \in 0..(MaxConfigSize - n) :
        \E names \in DistinctSeqs(SheetNames, n), sizes \in [1..n -> 0..k],
           rows \in [1..k -> ConfigRows] :
            /\ Sum(sizes, n) = k
            /\ c = Workbook(names, sizes, rows)

(***************************************************************************)
(* Building and reversing the mapping table.                               *)
(***************************************************************************)
Idle == <<>>

InitMapping ==
    /\ pc = "start"
    /\ IsConfig(config)
    /\ nested_mapping = Idle
    /\ built_mapping = Idle
    /\ reverse_input = Idle
    /\ reversals = 0
    /\ source_file = Idle
    /\ source_data = Idle
    /\ report = Idle
    /\ new_data = Idle
    /\ elements = Idle
    /\ rule = Idle
    /\ element_mapping = Idle
    /\ mapped_elements = Idle

GenerateNestedMapping ==
    /\ pc = "start"
    /\ LET r == generate_nested_mapping(config)
       IN  IF r.ok
           THEN /\ nested_mapping' = r.value
                /\ built_mapping' = r.value
                /\ pc' = "built"
           ELSE /\ nested_mapping' = nested_mapping
                /\ built_mapping' = built_mapping
                /\ pc' = r.value
    /\ UNCHANGED <<config, reverse_input, reversals, source_file, source_data,
                   report, new_data, elements, rule, element_mapping, mapped_elements>>

ReverseNestedMapping ==
    /\ pc \in {"built", "reversed"}
    /\ reversals < MaxReversals
    /\ reverse_input' = nested_mapping
    /\ nested_mapping' = reverse_nested_mapping(nested_mapping)
    /\ reversals' = reversals + 1
    /\ pc' = "reversed"
    /\ UNCHANGED <<config, built_mapping, source_file, source_data,
                   report, new_data, elements, rule, element_mapping, mapped_elements>>

NextMapping == GenerateNestedMapping \/ ReverseNestedMapping

SpecMapping == InitMapping /\ [][NextMapping]_vars

(***************************************************************************)
(* map_elements_by_rule                                                    *)
(***************************************************************************)
\* dict(element_mapping) with the first pair of a source kept.
DictOfFirstWins(pairs) ==
    LET firsts == { i \in 1..Len(pairs) : \A j \in 1..(i - 1) : pairs[j][1] # pairs[i][1] }
        F[i \in 0..Len(pairs)] ==
            IF i = 0 THEN <<>>
            ELSE IF i \in firsts
                 THEN Append(F[i - 1], [key |-> pairs[i][1], value |-> pairs[i][2]])
                 ELSE F[i - 1]
    IN  F[Len(pairs)]

\* dict(element_mapping): a later pair with the same source replaces the value.
RECURSIVE DictFrom(_, _)
DictFrom(pairs, d) ==
    IF pairs = <<>> THEN d
    ELSE DictFrom(Tail(pairs), Put(d, Head(pairs)[1], Head(pairs)[2]))

DictOf(pairs) == DictFrom(pairs, <<>>)

\* mapping_dict.get(elem, 'null')
GetOr(d, k, default) == IF Has(d, k) THEN Get(d, k) ELSE default

UnknownRule(r) == [type |-> "ValueError", rule |-> r]

\* map_elements_by_rule that copies the column under a rule it does not know.
map_elements_copying_unknown(elems, r, pairs) ==
    IF r = TRANSLATE
    THEN Return([ i \in 1..Len(elems) |-> GetOr(DictOf(pairs), elems[i], NULL) ])
    ELSE Return(elems)

map_elements_by_rule(elems, r, pairs) ==
    IF r = COPY THEN Return(elems)
    ELSE IF r = TRANSLATE
         THEN LET mapping_dict == DictOf(pairs)
              IN  Return([ i \in 1..Len(elems) |-> GetOr(mapping_dict, elems[i], NULL) ])
         ELSE Raise(UnknownRule(r))

(***************************************************************************)
(* read_source_data                                                        *)
(***************************************************************************)
\* df[title].fillna('null').tolist()
fillna(cells) == [ i \in 1..Len(cells) |-> IF notna(cells[i]) THEN cells[i] ELSE NULL ]

RECURSIVE ReadColumns(_, _)
ReadColumns(columns, titles) ==
    IF columns = <<>> THEN titles
    ELSE ReadColumns(Tail(columns),
                     Put(titles, Head(columns).title, fillna(Head(columns).cells)))

RECURSIVE ReadSheets(_, _)
ReadSheets(sheets, data) ==
    IF sheets = <<>> THEN data
    ELSE ReadSheets(Tail(sheets),
                    Put(data, Head(sheets).sheet_name,
                        ReadColumns(Head(sheets).columns, <<>>)))

read_source_data(source_df_dict) == ReadSheets(source_df_dict, <<>>)

(***************************************************************************)
(* The scan for a key by its source component.                             *)
(***************************************************************************)
None == <<>>

\* FirstMatch with the scan not left at the first hit: the last hit is kept.
LastMatch(d, name) ==
    LET hits == { i \in 1..Len(d) : d[i].key[1] = name }
    IN  IF hits = {} THEN None
        ELSE d[CHOOSE i \in hits : \A j \in hits : j <= i].key

\* for (source, target) in d.keys(): if name == source: matched = ...; break
FirstMatch(d, name) ==
    LET hits == { i \in 1..Len(d) : d[i].key[1] = name }
    IN  IF hits = {} THEN None
        ELSE d[CHOOSE i \in hits : \A j \in hits : i <= j].key

(***************************************************************************)
(* find_unmapped_data: the lines it prints.                                *)
(***************************************************************************)
UnmappedSheet(sheet_name) == [kind |-> "Sheet", sheet |-> sheet_name, title |-> None]

UnmappedTitle(sheet_name, title) == [kind |-> "Title", sheet |-> sheet_name, title |-> title]

RECURSIVE FindTitles(_, _, _, _)
FindTitles(titles, sheet_name, titles_mapping, printed) ==
    IF titles = <<>> THEN printed
    ELSE LET matched_title == FirstMatch(titles_mapping, Head(titles).key)
         IN  FindTitles(Tail(titles), sheet_name, titles_mapping,
                        IF matched_title = None
                        THEN Append(printed, UnmappedTitle(sheet_name, Head(titles).key))
                        ELSE printed)

RECURSIVE FindSheets(_, _, _)
FindSheets(data, mapping, printed) ==
    IF data = <<>> THEN printed
    ELSE LET sheet_name == Head(data).key
             matched_sheet == FirstMatch(mapping, sheet_name)
         IN  FindSheets(Tail(data), mapping,
                        IF matched_sheet = None
                        THEN Append(printed, UnmappedSheet(sheet_name))
                        ELSE FindTitles(Head(data).value, sheet_name,
                                        Get(mapping, matched_sheet), printed))

find_unmapped_data(data, mapping) == FindSheets(data, mapping, <<>>)

(***************************************************************************)
(* generate_new_data                                                       *)
(***************************************************************************)
\* StoreColumn that keeps a column already stored under the target title.
StoreColumnKeepingFirst(data, target_sheet, target_title, mapped) ==
    IF Has(Get(data, target_sheet), target_title) THEN data
    ELSE Put(data, target_sheet, Put(Get(data, target_sheet), target_title, mapped))

\* new_data[target_sheet][target_title] = mapped_elements
StoreColumn(data, target_sheet, target_title, mapped) ==
    Put(data, target_sheet, Put(Get(data, target_sheet), target_title, mapped))

\* if target_sheet not in new_data: new_data[target_sheet] = {}
EnsureSheet(data, target_sheet) ==
    IF Has(data, target_sheet) THEN data ELSE Put(data, target_sheet, <<>>)

\* UnmatchedTitle that copies the column through under its own title.
UnmatchedTitleCopied(data, target_sheet, title, elems) ==
    StoreColumn(data, target_sheet, title, elems)

\* if not matched_title: continue
UnmatchedTitle(data, target_sheet, title, elems) == data

RECURSIVE GenerateTitles(_, _, _, _)
GenerateTitles(titles, target_sheet, titles_mapping, data) ==
    IF titles = <<>> THEN Return(data)
    ELSE LET title == Head(titles).key
             elems == Head(titles).value
             matched_title == FirstMatch(titles_mapping, title)
         IN  IF matched_title = None
             THEN GenerateTitles(Tail(titles), target_sheet, titles_mapping,
                                 UnmatchedTitle(data, target_sheet, title, elems))
             ELSE LET info == Get(titles_mapping, matched_title)
                      mapped == map_elements_by_rule(elems, info.rule, info.elements)
                  IN  IF mapped.ok
                      THEN GenerateTitles(Tail(titles), target_sheet, titles_mapping,
                                          StoreColumn(data, target_sheet,
                                                      matched_title[2], mapped.value))
                      ELSE mapped

RECURSIVE GenerateSheets(_, _, _)
GenerateSheets(data, mapping, new) ==
    IF data = <<>> THEN Return(new)
    ELSE LET matched_sheet == FirstMatch(mapping, Head(data).key)
         IN  IF matched_sheet = None
             THEN GenerateSheets(Tail(data), mapping, new)
             ELSE LET target_sheet == matched_sheet[2]
                      r == GenerateTitles(Head(data).value, target_sheet,
                                          Get(mapping, matched_sheet),
                                          EnsureSheet(new, target_sheet))
                  IN  IF r.ok THEN GenerateSheets(Tail(data), mapping, r.value) ELSE r

\* generate_new_data with a target sheet entered by its first stored column:
\* a target sheet no column was stored under has no entry.
NonEmpty(entry) == entry.value # <<>>

generate_new_data_lazy_sheets(data, mapping) ==
    LET r == GenerateSheets(data, mapping, <<>>)
    IN  IF r.ok THEN Return(SelectSeq(r.value, NonEmpty)) ELSE r

generate_new_data(data, mapping) == GenerateSheets(data, mapping, <<>>)

(***************************************************************************)
(* Applying a rule to a column.                                            *)
(***************************************************************************)
ElementValues == { W("M"), W("F"), W("U"), NULL }

ElementPairs == { <<W("M"), W("Male")>>, <<W("M"), W("Man")>>, <<W("F"), W("Female")>> }

Rules == { COPY, TRANSLATE, W("Move") }

InitApply ==
    /\ pc = "call"
    /\ \E n \in 0..MaxElements : elements \in [1..n -> ElementValues]
    /\ rule \in Rules
    /\ \E n \in 0..MaxPairs : element_mapping \in [1..n -> ElementPairs]
    /\ mapped_elements = Idle
    /\ config = Idle
    /\ nested_mapping = Idle
    /\ built_mapping = Idle
    /\ reverse_input = Idle
    /\ reversals = 0
    /\ source_file = Idle
    /\ source_data = Idle
    /\ report = Idle
    /\ new_data = Idle

MapElementsByRule ==
    /\ pc = "call"
    /\ mapped_elements' = map_elements_by_rule(elements, rule, element_mapping)
    /\ pc' = IF mapped_elements'.ok THEN "returned" ELSE "raised"
    /\ UNCHANGED <<config, nested_mapping, built_mapping, reverse_input, reversals,
                   source_file, source_data, report, new_data,
                   elements, rule, element_mapping>>

NextApply == MapElementsByRule

SpecApply == InitApply /\ [][NextApply]_vars

(***************************************************************************)
(* The transformation of main: the mapping table is the one main holds     *)
(* once the direction is chosen (built, or built and reversed).            *)
(***************************************************************************)
SheetPairs == { <<W("A"), W("X")>>, <<W("A"), W("Y")>>, <<W("B"), W("X")>> }

Column(s, t, r, e) == [key |-> <<W(s), W(t)>>, value |-> [rule |-> r, elements |-> e]]

Gender == << <<W("M"), W("Male")>>, <<W("F"), W("Female")>> >>

ColumnEntries ==
    { Column("a", "x", COPY, <<>>),
      Column("b", "x", TRANSLATE, Gender),
      Column("a", "y", TRANSLATE, Gender),
      Column("a", "y", W("Move"), Gender) }

\* The table whose i-th group has the key keys[i] and the next sizes[i]
\* entries of the list entries.
Table(keys, sizes, entries) ==
    [ i \in 1..Len(keys) |->
        [key |-> keys[i],
         value |-> SubSeq(entries, Sum(sizes, i - 1) + 1, Sum(sizes, i))] ]

\* m is a mapping table of at most MaxTableKeys keys, built from a workbook
\* whose sheets each hold a row.
IsMappingTable(m) ==
    \E n \in 0..MaxTableKeys : \E k \in 0..(MaxTableKeys - n) :
        \E keys \in DistinctSeqs(SheetPairs, n), sizes \in [1..n -> 1..k],
           entries \in [1..k -> ColumnEntries] :
            /\ Sum(sizes, n) = k
            /\ WellFormed(Table(keys, sizes, entries))
            /\ m = Table(keys, sizes, entries)

SourceSheetNames == { W("A"), W("B") }

SourceTitles == { W("a"), W("b") }

\* The cells of a column of target.xlsx; every column of the workbook has two
\* rows, and an empty cell reads as NaN.
SourceCells(sheet_name, title) ==
    IF sheet_name = W("A")
    THEN IF title = W("a") THEN <<W("M"), W("F")>> ELSE <<W("F"), NaN>>
    ELSE IF title = W("a") THEN <<W("U"), W("M")>> ELSE <<NaN, W("U")>>

SourceWorkbook(names, sizes, titles) ==
    [ i \in 1..Len(names) |->
        [sheet_name |-> names[i],
         columns |-> [ j \in 1..sizes[i] |->
                        LET title == titles[Sum(sizes, i - 1) + j]
                        IN  [title |-> title, cells |-> SourceCells(names[i], title)] ]] ]

DistinctTitles(f) ==
    \A i \in 1..Len(f) : \A j, k \in 1..Len(f[i].columns) :
        f[i].columns[j].title = f[i].columns[k].title => j = k

Init ==
    /\ pc = "read"
    /\ IsMappingTable(nested_mapping)
    /\ config = Idle
    /\ built_mapping = Idle
    /\ reverse_input = Idle
    /\ reversals = 0
    /\ source_file = Idle
    /\ source_data = Idle
    /\ report = Idle
    /\ new_data = Idle
    /\ elements = Idle
    /\ rule = Idle
    /\ element_mapping = Idle
    /\ mapped_elements = Idle

AllSourceFiles ==
    UNION { UNION { { SourceWorkbook(names, sizes, titles) :
                        names \in DistinctSeqs(SourceSheetNames, n),
                        sizes \in { z \in [1..n -> 0..k] : Sum(z, n) = k },
                        titles \in [1..k -> SourceTitles] } :
                    k \in 0..(MaxSourceKeys - n) } : n \in 0..MaxSourceKeys }

\* The workbooks of at most MaxSourceKeys sheets and columns; a sheet has
\* each title once.
SourceFiles == { f \in AllSourceFiles : DistinctTitles(f) }

ReadSourceData ==
    /\ pc = "read"
    /\ \E f \in SourceFiles :
        /\ source_file' = f
        /\ source_data' = read_source_data(f)
    /\ pc' = "find"
    /\ UNCHANGED <<config, nested_mapping, built_mapping, reverse_input, reversals,
                   report, new_data, elements, rule, element_mapping, mapped_elements>>

FindUnmappedData ==
    /\ pc = "find"
    /\ report' = find_unmapped_data(source_data, nested_mapping)
    /\ pc' = "generate"
    /\ UNCHANGED <<config, nested_mapping, built_mapping, reverse_input, reversals,
                   source_file, source_data, new_data,
                   elements, rule, element_mapping, mapped_elements>>

GenerateNewData ==
    /\ pc = "generate"
    /\ new_data' = generate_new_data(source_data, nested_mapping)
    /\ pc' = IF new_data'.ok THEN "done" ELSE "raised"
    /\ UNCHANGED <<config, nested_mapping, built_mapping, reverse_input, reversals,
                   source_file, source_data, report,
                   elements, rule, element_mapping, mapped_elements>>

Next == ReadSourceData \/ FindUnmappedData \/ GenerateNewData

Spec == Init /\ [][Next]_vars

(***************************************************************************)
(* Properties of map_elements_by_rule.                                     *)
(***************************************************************************)
\* C3: under the rule Translate the result has the length and order of the
\* input; position i holds the target of the last pair whose source is the
\* i-th input value, or the null sentinel when no pair has that source, and
\* the call raises nothing.
C3_TranslateLastPairOrNull ==
    (pc \in {"returned", "raised"} /\ rule = TRANSLATE) =>
        /\ mapped_elements.ok
        /\ Len(mapped_elements.value) = Len(elements)
        /\ \A i \in 1..Len(elements) :
             LET hits == { j \in 1..Len(element_mapping) :
                             element_mapping[j][1] = elements[i] }
             IN  IF hits = {}
                 THEN mapped_elements.value[i] = NULL
                 ELSE \E j \in hits :
                        /\ \A h \in hits : h <= j
                        /\ mapped_elements.value[i] = element_mapping[j][2]

C3_Witness ==
    /\ pc = "returned"
    /\ rule = TRANSLATE
    /\ element_mapping = << <<W("M"), W("Male")>>, <<W("M"), W("Man")>> >>
    /\ elements = <<W("M"), W("F"), W("U")>>
    /\ mapped_elements.value = <<W("Man"), NULL, NULL>>

(***************************************************************************)
(* Properties of the transformation.                                       *)
(***************************************************************************)
Transformed == pc \in {"done", "raised"}

\* The positions of the source columns: sheet p, column q, in the order
\* generate_new_data visits them.
Positions ==
    UNION { { <<p, q>> : q \in 1..Len(source_data[p].value) } : p \in 1..Len(source_data) }

Earlier(a, b) == a[1] < b[1] \/ (a[1] = b[1] /\ a[2] < b[2])

SheetName(p) == source_data[p].key

TitleName(a) == source_data[a[1]].value[a[2]].key

Values(a) == source_data[a[1]].value[a[2]].value

\* The first group whose source sheet is name, 0 when none is.
GroupOfName(name) ==
    LET hits == { g \in 1..Len(nested_mapping) : nested_mapping[g].key[1] = name }
    IN  IF hits = {} THEN 0 ELSE CHOOSE g \in hits : \A h \in hits : g <= h

GroupOf(p) == GroupOfName(SheetName(p))

\* The first entry of that group whose source column is the title at a, 0
\* when the sheet has no group or the group no such entry.
EntryOf(a) ==
    IF GroupOf(a[1]) = 0 THEN 0
    ELSE LET titles == nested_mapping[GroupOf(a[1])].value
             hits == { e \in 1..Len(titles) : titles[e].key[1] = TitleName(a) }
         IN  IF hits = {} THEN 0 ELSE CHOOSE e \in hits : \A h \in hits : e <= h

Resolved == { a \in Positions : EntryOf(a) # 0 }

TargetSheet(p) == nested_mapping[GroupOf(p)].key[2]

Entry(a) == nested_mapping[GroupOf(a[1])].value[EntryOf(a)]

TargetTitle(a) == Entry(a).key[2]

KnownRule(a) == Entry(a).value.rule \in {COPY, TRANSLATE}

\* The column the entry of a makes of the values at a.
Applied(a) == map_elements_by_rule(Values(a), Entry(a).value.rule, Entry(a).value.elements).value

\* The resolved columns stored under target sheet T, title t.
Writers(T, t) == { a \in Resolved : TargetSheet(a[1]) = T /\ TargetTitle(a) = t }

Reported == { report[i] : i \in 1..Len(report) }

Output == new_data.value

\* C4: every source column whose transformed values the output does not
\* hold has an unmapped-sheet or unmapped-column entry in the report.
C4_NoColumnDroppedUnreported ==
    pc = "done" =>
        \A a \in Positions :
            \/ /\ a \in Resolved
               /\ Has(Output, TargetSheet(a[1]))
               /\ Has(Get(Output, TargetSheet(a[1])), TargetTitle(a))
               /\ Get(Get(Output, TargetSheet(a[1])), TargetTitle(a)) = Applied(a)
            \/ UnmappedSheet(SheetName(a[1])) \in Reported
            \/ UnmappedTitle(SheetName(a[1]), TitleName(a)) \in Reported

UnmappedSheets ==
    { p \in 1..Len(source_data) :
        \A g \in 1..Len(nested_mapping) : nested_mapping[g].key[1] # SheetName(p) }

UnmappedColumns ==
    { a \in Positions :
        /\ a[1] \notin UnmappedSheets
        /\ \A e \in 1..Len(nested_mapping[GroupOf(a[1])].value) :
             nested_mapping[GroupOf(a[1])].value[e].key[1] # TitleName(a) }

\* source_data without its unmapped sheets and unmapped columns.
Pruned ==
    LET MappedSheet(sheet) == GroupOfName(sheet.key) # 0
        PruneSheet(sheet) ==
            LET titles == nested_mapping[GroupOfName(sheet.key)].value
                MappedColumn(column) ==
                    \E e \in 1..Len(titles) : titles[e].key[1] = column.key
            IN  [key |-> sheet.key, value |-> SelectSeq(sheet.value, MappedColumn)]
        mapped == SelectSeq(source_data, MappedSheet)
    IN  [ i \in 1..Len(mapped) |-> PruneSheet(mapped[i]) ]

\* C5: an unmapped sheet and an unmapped column of a matched sheet are
\* reported, add nothing to the output and raise nothing: the outcome is the
\* outcome for the source dataset without them.
C5_UnmappedReportedAndExcluded ==
    Transformed =>
        /\ \A p \in UnmappedSheets : UnmappedSheet(SheetName(p)) \in Reported
        /\ \A a \in UnmappedColumns :
             UnmappedTitle(SheetName(a[1]), TitleName(a)) \in Reported
        /\ new_data = generate_new_data(Pruned, nested_mapping)
        /\ new_data.ok =>
             \A i \in 1..Len(Output) :
                /\ \E p \in 1..Len(source_data) :
                     p \notin UnmappedSheets /\ TargetSheet(p) = Output[i].key
                /\ \A j \in 1..Len(Output[i].value) :
                     \E a \in Positions \ UnmappedColumns :
                        /\ a[1] \notin UnmappedSheets
                        /\ TargetSheet(a[1]) = Output[i].key
                        /\ TargetTitle(a) = Output[i].value[j].key

C5_Witness ==
    /\ pc = "done"
    /\ UnmappedSheets # {}
    /\ UnmappedColumns # {}
    /\ \E i \in 1..Len(Output) : Output[i].value # <<>>
    /\ Pruned # source_data

\* C6 as claimed: a target sheet is a key of the output only if a column was
\* stored under it.
C6_SheetEntryOnlyWithColumn ==
    pc = "done" => \A i \in 1..Len(Output) : Output[i].value # <<>>

\* C6, amended: a target sheet is a key of the output exactly when a source
\* sheet resolved to a sheet-pair with that target sheet, whether or not any
\* of its columns was stored.
C6_SheetEntryWhenSheetMatches ==
    pc = "done" =>
        /\ NoDuplicateKeys(Output)
        /\ Keys(Output) = { TargetSheet(p) : p \in { r \in 1..Len(source_data) : GroupOf(r) # 0 } }

C6_Witness ==
    /\ pc = "done"
    /\ \E p \in 1..Len(source_data) :
         /\ GroupOf(p) # 0
         /\ source_data[p].value # <<>>
         /\ \A q \in 1..Len(source_data[p].value) : <<p, q>> \notin Resolved
         /\ Has(Output, TargetSheet(p))
         /\ Get(Output, TargetSheet(p)) = <<>>

\* C7: a source sheet resolves to the first sheet-pair key with its name as
\* source and a column to the first column-pair key of that group with its
\* title as source: the output holds exactly the targets so resolved, each
\* with the values some column resolved to it gives, and the report names
\* exactly the sheets and columns that do not resolve this way (a column
\* mapped only in a later group of the same source sheet among them).
C7_FirstMatchWins ==
    /\ pc = "generate" =>
         Reported = { UnmappedSheet(SheetName(p)) :
                        p \in { r \in 1..Len(source_data) : GroupOf(r) = 0 } }
                    \cup
                    { UnmappedTitle(SheetName(a[1]), TitleName(a)) :
                        a \in { b \in Positions : GroupOf(b[1]) # 0 /\ EntryOf(b) = 0 } }
    /\ pc = "done" =>
         /\ \A a \in Resolved :
              /\ Has(Output, TargetSheet(a[1]))
              /\ Has(Get(Output, TargetSheet(a[1])), TargetTitle(a))
         /\ \A i \in 1..Len(Output) : \A j \in 1..Len(Output[i].value) :
              \E a \in Writers(Output[i].key, Output[i].value[j].key) :
                 Output[i].value[j].value = Applied(a)

C7_Witness ==
    /\ pc = "done"
    /\ Len(nested_mapping) = 2
    /\ nested_mapping[1].key[1] = nested_mapping[2].key[1]
    /\ \E e, f \in 1..Len(nested_mapping[1].value) :
         /\ e < f
         /\ nested_mapping[1].value[e].key[1] = nested_mapping[1].value[f].key[1]
    /\ \E a \in Positions :
         /\ GroupOf(a[1]) = 1
         /\ EntryOf(a) = 0
         /\ \E e \in 1..Len(nested_mapping[2].value) :
              nested_mapping[2].value[e].key[1] = TitleName(a)
    /\ Resolved # {}

\* C8: when every resolved column has a known rule the call raises nothing,
\* every target a column resolved to is in the output, and it holds the
\* values of the column resolved to it that the source iteration visits
\* last.
C8_LastWriteWins ==
    (Transformed /\ \A a \in Resolved : KnownRule(a)) =>
        /\ new_data.ok
        /\ \A a \in Resolved :
             LET T == TargetSheet(a[1])
                 t == TargetTitle(a)
             IN  /\ Has(Output, T)
                 /\ Has(Get(Output, T), t)
                 /\ (\A b \in Writers(T, t) : b = a \/ Earlier(b, a)) =>
                        Get(Get(Output, T), t) = Applied(a)

C8_Witness ==
    /\ pc = "done"
    /\ \E a, b \in Resolved :
         /\ a[1] < b[1]
         /\ TargetSheet(a[1]) = TargetSheet(b[1])
         /\ TargetTitle(a) = TargetTitle(b)
         /\ Applied(a) # Applied(b)
         /\ Get(Get(Output, TargetSheet(b[1])), TargetTitle(b)) = Applied(b)
         /\ \E c \in Resolved :
              /\ Earlier(c, b)
              /\ TargetSheet(c[1]) = TargetSheet(b[1])
              /\ TargetTitle(c) # TargetTitle(b)

OtherRules == { W("Move"), W("copy"), <<SP, "Copy">>, <<"Translate", SP>>, <<>> }

\* C9: map_elements_by_rule raises an error naming the rule for every rule
\* other than Copy and Translate, and when a resolved column has such a rule
\* generate_new_data ends with that error, for the first such column in
\* iteration order, and returns no dataset.
C9_UnknownRuleAborts ==
    (Transformed /\ \E a \in Resolved : ~KnownRule(a)) =>
        /\ pc = "raised"
        /\ ~new_data.ok
        /\ \E a \in Resolved :
             /\ ~KnownRule(a)
             /\ \A b \in Resolved : Earlier(b, a) => KnownRule(b)
             /\ new_data.value = UnknownRule(Entry(a).value.rule)
        /\ \A r \in OtherRules \cup {new_data.value.rule} :
             map_elements_by_rule(Values(CHOOSE a \in Resolved : TRUE), r, Gender)
                = Raise(UnknownRule(r))

C9_Witness ==
    /\ pc = "raised"
    /\ new_data = Raise(UnknownRule(W("Move")))
    /\ \E a, b \in Resolved : Earlier(b, a) /\ KnownRule(b) /\ ~KnownRule(a)

(***************************************************************************)
(* Properties of the mapping table.                                        *)
(***************************************************************************)
MappingWellFormed == pc \in {"built", "reversed"} => WellFormed(nested_mapping)

Range(s) == { s[i] : i \in 1..Len(s) }

\* Structural equality: the same keys at both levels, the same rule and the
\* same set of element pairs under each.
SameTable(m1, m2) ==
    /\ Len(m1) = Len(m2)
    /\ Keys(m1) = Keys(m2)
    /\ \A K \in Keys(m1) :
         LET t1 == Get(m1, K)
             t2 == Get(m2, K)
         IN  /\ Len(t1) = Len(t2)
             /\ Keys(t1) = Keys(t2)
             /\ \A k \in Keys(t1) :
                  /\ Get(t1, k).rule = Get(t2, k).rule
                  /\ Range(Get(t1, k).elements) = Range(Get(t2, k).elements)

\* C1: a table built by generate_nested_mapping and reversed twice is
\* structurally equal to the table as built: the same sheet-pair keys, the
\* same column-pair keys under each, the same rule and the same set of
\* element pairs under each column-pair key.
C1_DoubleReversalIsIdentity ==
    reversals = 2 => SameTable(nested_mapping, built_mapping)

C1_Witness ==
    /\ reversals = 2
    /\ Len(built_mapping) = 2
    /\ \E i \in 1..Len(built_mapping) :
         \E j \in 1..Len(built_mapping[i].value) :
            /\ built_mapping[i].value[j].value.rule = TRANSLATE
            /\ Len(built_mapping[i].value[j].value.elements) >= 2

\* C2: the table reverse_nested_mapping returns holds the key (T, S) for
\* every sheet-pair key (S, T) of its argument and no other, under it the key
\* (t, s) for every column-pair key (s, t) of that group and no other, with
\* the same rule and with the argument's element pairs, each swapped.
C2_ReverseSwapsEveryLevel ==
    pc = "reversed" =>
        /\ Len(nested_mapping) = Len(reverse_input)
        /\ Keys(nested_mapping) = { <<K[2], K[1]>> : K \in Keys(reverse_input) }
        /\ \A K \in Keys(reverse_input) :
             LET t == Get(reverse_input, K)
                 r == Get(nested_mapping, <<K[2], K[1]>>)
             IN  /\ Len(r) = Len(t)
                 /\ Keys(r) = { <<k[2], k[1]>> : k \in Keys(t) }
                 /\ \A k \in Keys(t) :
                      LET a == Get(t, k)
                          b == Get(r, <<k[2], k[1]>>)
                      IN  /\ b.rule = a.rule
                          /\ Len(b.elements) = Len(a.elements)
                          /\ \A n \in 1..Len(a.elements) :
                               /\ b.elements[n][1] = a.elements[n][2]
                               /\ b.elements[n][2] = a.elements[n][1]

C2_Witness ==
    /\ pc = "reversed"
    /\ reversals = 1
    /\ \E i \in 1..Len(nested_mapping) :
         /\ nested_mapping[i].key = <<W("X"), W("A")>>
         /\ \E j \in 1..Len(nested_mapping[i].value) :
              /\ nested_mapping[i].value[j].key = <<W("x"), W("a")>>
              /\ nested_mapping[i].value[j].value.rule = TRANSLATE
              /\ nested_mapping[i].value[j].value.elements =
                    << <<W("Male"), W("M")>>, <<W("Female"), W("F")>> >>

RowKey(row) == <<strip(row.LeftTitle), strip(row.RightTitle)>>

RowRule(row) == strip(row.TransType)

\* The element pairs a row's cells hold, empty cells skipped.
RowPairs(row) == ParseElementPairs(row.cells, <<>>).value

RECURSIVE Concat(_)
Concat(ss) == IF ss = <<>> THEN <<>> ELSE Head(ss) \o Concat(Tail(ss))

\* The rows of the sheets of config whose name gives the sheet-pair key K, in
\* workbook order: the rows of one sheet when one sheet has that key.
GroupRows(K) ==
    Concat([ i \in 1..Len(config) |->
               IF SplitPair(config[i].sheet_name).value = K
               THEN config[i].rows ELSE <<>> ])

FirstRowWith(rows, k) ==
    rows[CHOOSE i \in 1..Len(rows) :
            /\ RowKey(rows[i]) = k
            /\ \A j \in 1..(i - 1) : RowKey(rows[j]) # k]

TranslatePairs(rows, k) ==
    Concat([ i \in 1..Len(rows) |->
               IF RowKey(rows[i]) = k /\ RowRule(rows[i]) = TRANSLATE
               THEN RowPairs(rows[i]) ELSE <<>> ])

\* C10: in the table generate_nested_mapping builds, the RuleSpec under a
\* column-pair key has the rule of the first row with that key, and as its
\* elements the element pairs, in row order, of every row with that key whose
\* own rule is Translate; other rows add no element pair.
C10_FirstRuleAndTranslatePairsAccumulate ==
    pc = "built" =>
        \A K \in Keys(nested_mapping) :
            LET rows == GroupRows(K)
                titles == Get(nested_mapping, K)
            IN  /\ Keys(titles) = { RowKey(rows[i]) : i \in 1..Len(rows) }
                /\ \A k \in Keys(titles) :
                     /\ Get(titles, k).rule = RowRule(FirstRowWith(rows, k))
                     /\ Get(titles, k).elements = TranslatePairs(rows, k)

C10_Witness ==
    /\ pc = "built"
    /\ Len(config) = 1
    /\ Len(config[1].rows) = 3
    /\ \E j \in 1..Len(nested_mapping[1].value) :
         /\ nested_mapping[1].value[j].value.rule = COPY
         /\ Len(nested_mapping[1].value[j].value.elements) = 3


====
